---------------------------- MODULE Spec2Model ----------------------------
(***************************************************************************)
(* Model of the Telegram finance assistant: the text chunker and the       *)
(* fetcher of scraper.py, the normalizer, the scorer, the page parser, the *)
(* product comparison and the full report of investment_analyzer.py, and   *)
(* the digest workflow, the handlers and the delivery of bot.py.           *)
(*                                                                         *)
(* Each component has its own specification (SpecChunk, SpecScore,         *)
(* SpecNorm, SpecDigest, SpecReport, SpecParse, SpecBot, SpecSend,         *)
(* SpecCompare); the variables of the other components keep their idle     *)
(* value under it.                                                         *)
(***************************************************************************)
EXTENDS Integers, Sequences, FiniteSets, TLC

(***************************************************************************)
(* Bounds of the model.                                                    *)
(***************************************************************************)
\* longest input text given to chunk_text
MaxLen == 5
\* largest max_chars given to chunk_text
MaxChars == 4
\* most chunks chunk_text is followed for (a run that never ends is cut here)
MaxParts == 7
\* numbers with a fractional part (yield_rate, score) are counted in units of
\* 1/Scale, so that 5.5 is 55 when Scale is 10
Scale == 10
\* yield rates given to score_product range over -MaxYield..MaxYield percent
MaxYield == 20
\* the URL list of a category is followed for its first MaxUrls entries
MaxUrls == 2
\* the configured MAX_RETRIES ranges over 0..MaxRetries
MaxRetries == 2
\* chunk_text gives at most MaxChunks chunks for one article
MaxChunks == 1
\* the configured SCRAPE_DELAY ranges over 0..MaxDelay seconds
MaxDelay == 2

\* Python's None, a value apart from every str of the model
None == "<None>"
\* an optional number: <<>> when it is None, <<v>> when it is the number v
Absent == <<>>
Some(v) == <<v>>

(***************************************************************************)
(* Characters and Python's str operations used by chunk_text.              *)
(* A text is a sequence of characters; NL is '\n', SP is ' '.              *)
(***************************************************************************)
NL == "nl"
SP == "sp"
Chars == {"a", "b", SP, NL}

\* str.isspace of one character: what str.strip() removes
IsSpace(c) == c \in {SP, NL}

RECURSIVE LStrip(_)
LStrip(s) == IF s # <<>> /\ IsSpace(Head(s)) THEN LStrip(Tail(s)) ELSE s

RECURSIVE RStrip(_)
RStrip(s) ==
    IF s # <<>> /\ IsSpace(s[Len(s)]) THEN RStrip(SubSeq(s, 1, Len(s) - 1)) ELSE s

\* str.strip()
Strip(s) == RStrip(LStrip(s))

Min(a, b) == IF a < b THEN a ELSE b
Max(a, b) == IF a > b THEN a ELSE b

\* text.rfind('\n', 0, end) for end >= 0: the highest 0-based index i < end
\* (and < len) holding a newline, -1 when there is none
RFindNewline(s, end) ==
    LET hits == {i \in 0..(Min(end, Len(s)) - 1) : s[i + 1] = NL}
    IN  IF hits = {} THEN -1 ELSE CHOOSE i \in hits : \A j \in hits : j <= i

\* text[:cut] and text[cut:] for 0 <= cut <= len(text)
Prefix(s, c) == SubSeq(s, 1, c)
Suffix(s, c) == SubSeq(s, c + 1, Len(s))

\* mutants of FindCut: a newline at index 1 ignored as well; a fallback cut
\* one past max_chars; a newline at index max_chars found as well
FindCut_IncludesMax(s, m) ==
    LET c == RFindNewline(s, m + 1) IN IF c <= 0 THEN m ELSE c
FindCut_IgnoresIndex1(s, m) ==
    LET c == RFindNewline(s, m) IN IF c <= 1 THEN m ELSE c
FindCut_FallbackPastMax(s, m) ==
    LET c == RFindNewline(s, m) IN IF c <= 0 THEN m + 1 ELSE c

\* scraper.py 84-86: cut = text.rfind('\n', 0, max_chars); if cut <= 0: cut = max_chars
FindCut(s, m) ==
    LET c == RFindNewline(s, m) IN IF c <= 0 THEN m ELSE c

\* mutants of Rest: the rest is not trimmed; the character at the cut is
\* dropped
Rest_NoStrip(s, c) == Suffix(s, c)
Rest_DropsCutChar(s, c) == Strip(Suffix(s, c + 1))

\* scraper.py 88: text = text[cut:].strip()
Rest(s, c) == Strip(Suffix(s, c))

\* scraper.py 87: the chunk appended, text[:cut].strip()
Chunk(s, c) == Strip(Prefix(s, c))

VARIABLES
    \* chunk_text: the argument as given, the local text, max_chars, parts, cut,
    \* and the position in the function
    input, text, max_chars, parts, cut, cpc

chunkVars == <<input, text, max_chars, parts, cut, cpc>>

VARIABLES
    \* score_product: the product record p, the local score (the returned
    \* value once spc is "done"), and the position in the function
    p, score, spc

scoreVars == <<p, score, spc>>

VARIABLES
    \* _normalize_parsed: the raw record, the product returned, the exception
    \* raised (None when there is none), and the position in the function
    raw, product, nraised, npc

normVars == <<raw, product, nraised, npc>>

VARIABLES
    \* generate_digest: its argument, its locals and its outcome (ret is the
    \* value returned, raised the exception that left it), and its position
    category, urls, articles, summaries, digest, ret, raised, dpc,
    \* scrape_many and _make_request: the index of the URL being scraped, the
    \* retries argument, the response, the sleeps of the current fetch, and the
    \* GET requests issued and failed for the current URL
    ui, retries, response, sleeps, attempts, failures,
    \* the configured MAX_RETRIES and SCRAPE_DELAY (seconds), and the seconds
    \* slept since the run's last GET request was issued (Absent before the
    \* first one)
    max_retries, delay, slept,
    \* the summarizer and aggregator calls made, and the article and chunk
    \* being summarized
    nSummarize, nAggregate, ai, ci,
    \* the store: database.SessionLocal, the session of the run ("none",
    \* "open", "closed"), the objects added to it, the rows committed
    SessionLocal, db_session, db_pending, db_rows

runVars == <<category, urls, articles, summaries, digest, ret, raised, dpc>>
fetchVars == <<ui, retries, response, sleeps, attempts, failures, max_retries,
               delay, slept>>
llmVars == <<nSummarize, nAggregate, ai, ci>>
storeVars == <<SessionLocal, db_session, db_pending, db_rows>>
digestVars == <<runVars, fetchVars, llmVars, storeVars>>

VARIABLES
    \* generate_full_investment_report: its arguments, its locals
    \* (local_articles, products_data, the list parse_product_page returned
    \* for the current article, structured_products, top3), the indexes of its
    \* loops, the calls it has made to its collaborators, the phase of the
    \* last piece of work it did, its outcome and its position
    profile, local_articles, products_data, parsed, structured_products, top3,
    rai, rci, rpi, rcalls, rphase, routcome, rpc

reportVars ==
    <<profile, local_articles, products_data, parsed, structured_products, top3,
      rai, rci, rpi, rcalls, rphase, routcome, rpc>>

VARIABLES
    \* parse_product_page and extract_investment_data: the function called, the
    \* article given, what the selector tier gave (parsed), the parsed JSON of
    \* the LLM's answer, the list parse_product_page returns, the list
    \* extract_investment_data returns, the LLM calls made, the exception that
    \* left the function, and the position
    pfun, particle, tier1, answer, presult, extracted, llm_calls, praised, ppc

parseVars == <<pfun, particle, tier1, answer, presult, extracted, llm_calls, praised, ppc>>

VARIABLES
    \* the bot (bot.py): the updates users have sent, those waiting at Telegram,
    \* those fetched into the update queue, the handler in progress, the
    \* pipeline run executing on the event loop's thread, the one executing in
    \* a worker thread, whether the worker's result is ready for the handler,
    \* and the runs of the daily job so far
    sent, incoming, update_queue, handler, loop_run, worker_run, future_done,
    jobs_run

botVars ==
    <<sent, incoming, update_queue, handler, loop_run, worker_run, future_done,
      jobs_run>>

VARIABLES
    \* the delivery of a returned text (bot.py 121-122, 153-155, 188-190,
    \* 216-217, 269-270, 316-317): who sends, the length of the text, the offset
    \* i of the sending loop, the segments sent so far to one recipient (each
    \* the pair of offsets it spans in the text), and the position
    sender, text_len, seg_i, segments, sndpc

sendVars == <<sender, text_len, seg_i, segments, sndpc>>

VARIABLES
    \* compare_products (investment_analyzer.py 415-421) with
    \* scrape_investment_products (81-100): the product type the bot passes,
    \* the urls list resolved, the index of scrape_many's loop, the URLs
    \* requested so far, the articles obtained, and the position
    product_type, source_urls, sui, scraped, found, cmppc

compareVars == <<product_type, source_urls, sui, scraped, found, cmppc>>

vars ==
    <<chunkVars, scoreVars, normVars, digestVars, reportVars, parseVars,
      botVars, sendVars, compareVars>>

\* what each component leaves alone
nonChunkVars ==
    <<scoreVars, normVars, digestVars, reportVars, parseVars, botVars,
      sendVars, compareVars>>
nonScoreVars ==
    <<chunkVars, normVars, digestVars, reportVars, parseVars, botVars,
      sendVars, compareVars>>
nonNormVars ==
    <<chunkVars, scoreVars, digestVars, reportVars, parseVars, botVars,
      sendVars, compareVars>>
nonDigestVars ==
    <<chunkVars, scoreVars, normVars, reportVars, parseVars, botVars,
      sendVars, compareVars>>
nonReportVars ==
    <<chunkVars, scoreVars, normVars, digestVars, parseVars, botVars,
      sendVars, compareVars>>
nonParseVars ==
    <<chunkVars, scoreVars, normVars, digestVars, reportVars, botVars,
      sendVars, compareVars>>
nonBotVars ==
    <<chunkVars, scoreVars, normVars, digestVars, reportVars, parseVars,
      sendVars, compareVars>>
nonSendVars ==
    <<chunkVars, scoreVars, normVars, digestVars, reportVars, parseVars,
      botVars, compareVars>>
nonCompareVars ==
    <<chunkVars, scoreVars, normVars, digestVars, reportVars, parseVars,
      botVars, sendVars>>

(***************************************************************************)
(* The idle state of each component, held under the other specifications.  *)
(***************************************************************************)
ChunkIdle ==
    /\ input = <<>> /\ text = <<>> /\ max_chars = 0
    /\ parts = <<>> /\ cut = 0 /\ cpc = "idle"

ScoreIdle ==
    /\ p = [yield_rate |-> Absent, currency |-> None, min_investment |-> Absent]
    /\ score = 0
    /\ spc = "idle"

NormIdle ==
    /\ raw = <<>> /\ product = <<>> /\ nraised = None /\ npc = "idle"

DigestIdle ==
    /\ category = None /\ urls = <<>> /\ articles = <<>> /\ summaries = <<>>
    /\ digest = None /\ ret = None /\ raised = None /\ dpc = "idle"
    /\ ui = 0 /\ retries = 0 /\ response = None /\ sleeps = <<>>
    /\ attempts = 0 /\ failures = 0 /\ max_retries = 0
    /\ delay = 0 /\ slept = Absent
    /\ nSummarize = 0 /\ nAggregate = 0 /\ ai = 0 /\ ci = 0
    /\ SessionLocal = None /\ db_session = "none" /\ db_pending = 0 /\ db_rows = 0

ParseIdle ==
    /\ pfun = None /\ particle = None /\ tier1 = <<>>
    /\ answer = [kind |-> "none", items |-> <<>>]
    /\ presult = <<>> /\ extracted = <<>> /\ llm_calls = 0
    /\ praised = None /\ ppc = "idle"

BotIdle ==
    /\ sent = 0 /\ incoming = <<>> /\ update_queue = <<>>
    /\ handler = [kind |-> "none", at |-> "none"]
    /\ loop_run = "none" /\ worker_run = "none" /\ future_done = FALSE
    /\ jobs_run = 0

ReportIdle ==
    /\ profile = None /\ local_articles = <<>> /\ products_data = <<>>
    /\ parsed = <<>> /\ structured_products = <<>> /\ top3 = <<>>
    /\ rai = 0 /\ rci = 0 /\ rpi = 0 /\ rcalls = {} /\ rphase = "idle"
    /\ routcome = [kind |-> "none", value |-> None] /\ rpc = "idle"

CompareIdle ==
    /\ product_type = None /\ source_urls = <<>> /\ sui = 0 /\ scraped = <<>>
    /\ found = 0 /\ cmppc = "idle"

SendIdle ==
    /\ sender = "none" /\ text_len = 0 /\ seg_i = 0 /\ segments = <<>>
    /\ sndpc = "idle"

(***************************************************************************)
(* chunk_text as a state machine.                                          *)
(***************************************************************************)

\* all texts of length at most n
TextsUpTo(n) == UNION {[1..k -> Chars] : k \in 0..n}

ChunkInit ==
    /\ input \in TextsUpTo(MaxLen)
    /\ text = input
    /\ max_chars \in 0..MaxChars
    /\ parts = <<>>
    /\ cut = 0
    /\ cpc = "entry"
    /\ ScoreIdle
    /\ NormIdle
    /\ DigestIdle
    /\ ReportIdle
    /\ ParseIdle
    /\ BotIdle
    /\ SendIdle
    /\ CompareIdle

\* scraper.py 80-82: if not text: return []; parts = []
ChunkEntry ==
    /\ cpc = "entry"
    /\ cpc' = IF text = <<>> THEN "done" ELSE "while"
    /\ UNCHANGED <<input, text, max_chars, parts, cut>>
    /\ UNCHANGED nonChunkVars

\* scraper.py 83-86: the loop test holds, cut is computed
ChunkFindCut ==
    /\ cpc = "while"
    /\ Len(text) > max_chars
    /\ Len(parts) < MaxParts
    /\ cut' = FindCut(text, max_chars)
    /\ cpc' = "body"
    /\ UNCHANGED <<input, text, max_chars, parts>>
    /\ UNCHANGED nonChunkVars

\* scraper.py 87-88: the chunk is appended and text is cut
ChunkEmit ==
    /\ cpc = "body"
    /\ parts' = Append(parts, Chunk(text, cut))
    /\ text' = Rest(text, cut)
    /\ cpc' = "while"
    /\ UNCHANGED <<input, max_chars, cut>>
    /\ UNCHANGED nonChunkVars

\* scraper.py 83, 89-91: the loop test fails; the rest, if any, is appended
ChunkReturn ==
    /\ cpc = "while"
    /\ ~(Len(text) > max_chars)
    /\ parts' = IF text # <<>> THEN Append(parts, text) ELSE parts
    /\ cpc' = "done"
    /\ UNCHANGED <<input, text, max_chars, cut>>
    /\ UNCHANGED nonChunkVars

ChunkNext == ChunkEntry \/ ChunkFindCut \/ ChunkEmit \/ ChunkReturn

SpecChunk == ChunkInit /\ [][ChunkNext]_vars

(***************************************************************************)
(* score_product (investment_analyzer.py 399-414).  yield_rate and the     *)
(* score are counted in units of 1/Scale; min_investment is a whole        *)
(* number of currency units.                                               *)
(***************************************************************************)
BaseScore == 50
YieldBenchmark == 1
YieldWeight == 3
CurrencyPenaltyPoints == 5
MinInvestmentPenaltyPoints == 5
MinInvestmentThreshold == 1000000
ScoreFloor == 0
ScoreCap == 100

\* the currencies score_product does not penalize
MajorCurrencies == {"KZT", "USD", "EUR"}

\* the product records given to score_product: normalized products (currency
\* "" or a short uppercased string) and the placeholder record of
\* parse_product_page (every field None)
ScoreCurrencies == {None, "", "KZT", "USD", "EUR", "RUB", "KZ"}
ScoreYields == {Absent} \cup {Some(y) : y \in (0 - MaxYield * Scale)..(MaxYield * Scale)}
ScoreMinInvestments ==
    {Absent} \cup {Some(m) : m \in {0, 500000, MinInvestmentThreshold,
                                    MinInvestmentThreshold + 1, 2000000}}
ScoreProducts ==
    [yield_rate : ScoreYields, currency : ScoreCurrencies,
     min_investment : ScoreMinInvestments]

\* investment_analyzer.py 405-407: the yield term added when yield_rate is there
YieldBonus(q) ==
    IF q.yield_rate # Absent
    THEN (q.yield_rate[1] - YieldBenchmark * Scale) * YieldWeight
    ELSE 0

\* mutant of CurrencyPenalty: a missing or empty currency is not penalized
CurrencyPenalty_SkipsEmpty(q) ==
    IF q.currency \notin (MajorCurrencies \cup {None, ""})
    THEN CurrencyPenaltyPoints * Scale
    ELSE 0

\* investment_analyzer.py 409-410
CurrencyPenalty(q) ==
    IF q.currency \notin MajorCurrencies THEN CurrencyPenaltyPoints * Scale ELSE 0

\* investment_analyzer.py 411-412: min_investment is truthy and above the threshold
MinInvestmentPenalty(q) ==
    IF /\ q.min_investment # Absent
       /\ q.min_investment[1] # 0
       /\ q.min_investment[1] > MinInvestmentThreshold
    THEN MinInvestmentPenaltyPoints * Scale
    ELSE 0

\* mutant of Clamp: the cap at 100 is missing
Clamp_NoCap(v) == Max(ScoreFloor * Scale, v)

\* investment_analyzer.py 414: max(0, min(100, score))
Clamp(v) == Max(ScoreFloor * Scale, Min(ScoreCap * Scale, v))

\* investment_analyzer.py 404-414: the value score_product returns for q
ScoreOf(q) ==
    LET s0 == BaseScore * Scale
        s1 == s0 + YieldBonus(q)
        s2 == s1 - CurrencyPenalty(q)
        s3 == s2 - MinInvestmentPenalty(q)
    IN  Clamp(s3)

ScoreInit ==
    /\ p \in ScoreProducts
    /\ score = 0
    /\ spc = "entry"
    /\ ChunkIdle
    /\ NormIdle
    /\ DigestIdle
    /\ ReportIdle
    /\ ParseIdle
    /\ BotIdle
    /\ SendIdle
    /\ CompareIdle

\* investment_analyzer.py 399-414, the whole function
ScoreProduct ==
    /\ spc = "entry"
    /\ score' = ScoreOf(p)
    /\ spc' = "done"
    /\ UNCHANGED p
    /\ UNCHANGED nonScoreVars

ScoreNext == ScoreProduct

SpecScore == ScoreInit /\ [][ScoreNext]_vars

(***************************************************************************)
(* _normalize_parsed (investment_analyzer.py 369-397).                     *)
(*                                                                         *)
(* A value of a raw record is [t, v]: t is its Python type ("none" for     *)
(* None, "str", "num" for an int or a float, "obj" for a list, a dict or a *)
(* bool) and v is the sequence of characters of str(value).  A key the     *)
(* record does not hold has t = "missing".                                 *)
(***************************************************************************)
PyNone == [t |-> "none", v |-> <<"N", "o", "n", "e">>]
Missing == [t |-> "missing", v |-> <<>>]
Str(cs) == [t |-> "str", v |-> cs]
Num(cs) == [t |-> "num", v |-> cs]
Obj(cs) == [t |-> "obj", v |-> cs]
\* a float: m / 10^e, with no trailing zero counted in e
Float(m, e) == [t |-> "float", v |-> <<m, e>>]

\* bool(value)
Truthy(x) ==
    CASE x.t = "none" -> FALSE
      [] x.t = "missing" -> FALSE
      [] x.t = "str" -> x.v # <<>>
      [] x.t = "num" -> x.v \notin {<<"0">>, <<"0", ".", "0">>}
      [] x.t = "obj" -> x.v \notin {<<"[", "]">>, <<"{", "}">>, <<"F", "a", "l", "s", "e">>}
      [] OTHER -> TRUE

\* raw.get(key)
Get(r, key) == IF r[key].t = "missing" THEN PyNone ELSE r[key]

\* a or b
Or(a, b) == IF Truthy(a) THEN a ELSE b

Digits == {"0", "1", "2", "3", "4", "5", "6", "7", "8", "9"}
IsDigit(c) == c \in Digits
DigitVal(c) ==
    CASE c = "0" -> 0 [] c = "1" -> 1 [] c = "2" -> 2 [] c = "3" -> 3 [] c = "4" -> 4
      [] c = "5" -> 5 [] c = "6" -> 6 [] c = "7" -> 7 [] c = "8" -> 8 [] c = "9" -> 9

RECURSIVE DigitsToNat(_)
DigitsToNat(ds) ==
    IF ds = <<>> THEN 0
    ELSE 10 * DigitsToNat(SubSeq(ds, 1, Len(ds) - 1)) + DigitVal(ds[Len(ds)])

\* s.replace(a, b) for single characters; b = "" removes a
ReplaceChar(cs, a, b) ==
    IF b = "" THEN SelectSeq(cs, LAMBDA c : c # a)
    ELSE [i \in DOMAIN cs |-> IF cs[i] = a THEN b ELSE cs[i]]

\* the end of the run of digits that starts at index i
RECURSIVE DigitRunEnd(_, _)
DigitRunEnd(cs, i) ==
    IF i + 1 <= Len(cs) /\ IsDigit(cs[i + 1]) THEN DigitRunEnd(cs, i + 1) ELSE i

\* float(text) for a text of digits with at most one dot and at least one digit
RECURSIVE DropTrailingZeros(_)
DropTrailingZeros(ds) ==
    IF ds # <<>> /\ ds[Len(ds)] = "0"
    THEN DropTrailingZeros(SubSeq(ds, 1, Len(ds) - 1)) ELSE ds

ToFloat(cs) ==
    LET dots == {i \in DOMAIN cs : cs[i] = "."}
        d    == IF dots = {} THEN Len(cs) + 1 ELSE CHOOSE i \in dots : TRUE
        int  == SubSeq(cs, 1, d - 1)
        frac == DropTrailingZeros(SubSeq(cs, d + 1, Len(cs)))
    IN  Float(DigitsToNat(int \o frac), Len(frac))

\* float(text) succeeds: digits, at most one dot, at least one digit
FloatParses(cs) ==
    /\ \A i \in DOMAIN cs : IsDigit(cs[i]) \/ cs[i] = "."
    /\ Cardinality({i \in DOMAIN cs : cs[i] = "."}) <= 1
    /\ \E i \in DOMAIN cs : IsDigit(cs[i])

\* investment_analyzer.py 371-375: re.search(r"(\d+(\.\d+)?)", ...) is the
\* leftmost run of digits, with a dot and a further run of digits when they follow
parse_percent(x) ==
    IF ~Truthy(x) THEN PyNone
    ELSE LET cs    == ReplaceChar(x.v, ",", ".")
             starts == {i \in DOMAIN cs : IsDigit(cs[i])}
         IN  IF starts = {} THEN PyNone
             ELSE LET i == CHOOSE k \in starts : \A j \in starts : k <= j
                      e == DigitRunEnd(cs, i)
                      f == IF e + 2 <= Len(cs) /\ cs[e + 1] = "." /\ IsDigit(cs[e + 2])
                           THEN DigitRunEnd(cs, e + 2) ELSE e
                  IN  ToFloat(SubSeq(cs, i, f))

\* investment_analyzer.py 377-383: every character but digits, dots and commas
\* is removed, then the commas; float() of the rest, None when it fails
parse_amount(x) ==
    IF ~Truthy(x) THEN PyNone
    ELSE LET kept == SelectSeq(x.v, LAMBDA c : IsDigit(c) \/ c \in {".", ","})
             cs   == ReplaceChar(kept, ",", "")
         IN  IF FloatParses(cs) THEN ToFloat(cs) ELSE PyNone

\* str.upper() of one character
UpperChar(c) ==
    CASE c = "k" -> "K" [] c = "z" -> "Z" [] c = "t" -> "T" [] c = "e" -> "E"
      [] c = "n" -> "N" [] c = "g" -> "G" [] c = "u" -> "U" [] c = "s" -> "S"
      [] c = "d" -> "D" [] OTHER -> c

Upper(cs) == [i \in DOMAIN cs |-> UpperChar(cs[i])]

\* s[:n]
Take(cs, n) == SubSeq(cs, 1, Min(n, Len(cs)))

CurrencyLen == 3

\* investment_analyzer.py 390: (raw.get("currency") or "") is a str, so that
\* .upper() exists
CurrencyIsStr(r) == Or(Get(r, "currency"), Str(<<>>)).t = "str"

\* investment_analyzer.py 390: (raw.get("currency") or "").upper()[:3]
NormCurrency(r) == Str(Take(Upper(Or(Get(r, "currency"), Str(<<>>)).v), CurrencyLen))

\* investment_analyzer.py 385-397: the record returned (scraped_at, the time
\* of the call, is left out)
NormalizedProduct(r) ==
    [name            |-> Or(Get(r, "name"), Get(r, "title")),
     type            |-> Get(r, "type"),
     provider        |-> Get(r, "provider"),
     yield_rate      |-> parse_percent(Or(Get(r, "yield_rate"), Get(r, "rate"))),
     currency        |-> NormCurrency(r),
     term            |-> Get(r, "term"),
     risk_level      |-> Or(Get(r, "risk_level"), Str(<<"u", "n", "k", "n", "o", "w", "n">>)),
     min_investment  |-> parse_amount(Get(r, "min_investment")),
     url             |-> Get(r, "url"),
     additional_info |-> Or(Get(r, "additional_info"), Obj(<<"{", "}">>))]

RawKeys ==
    {"name", "title", "type", "provider", "yield_rate", "rate", "currency", "term",
     "risk_level", "min_investment", "min_amount", "url", "source", "parser",
     "additional_info"}

EmptyRaw == [k \in RawKeys |-> Missing]

\* r with the values of the record f set
With(r, f) == [k \in RawKeys |-> IF k \in DOMAIN f THEN f[k] ELSE r[k]]

SomeUrl == Str(<<"h", "t", "t", "p", ":", "/", "/", "f", ".", "k", "z">>)

\* texts a page or an LLM puts where a rate or an amount is expected
RateTexts ==
    {<<>>, <<"5", ",", "5", "%">>, <<"1", "2">>, <<"a", "b", "c">>,
     <<"o", "t", " ", "7", ".", "2", "5", " ", "d", "o", " ", "9">>, <<"3", ".">>}
AmountTexts ==
    {<<>>, <<"1", " ", "0", "0", "0", " ", "0", "0", "0", " ", "T">>,
     <<"1", ",", "5", "0", "0", ".", "5">>, <<"1", ".", "2", ".", "3">>, <<"n", "/", "a">>,
     <<".">>}
CurrencyTexts ==
    {<<>>, <<"K", "Z", "T">>, <<"k", "z", "t">>, <<"u", "s">>,
     <<"T", "e", "n", "g", "e">>, <<"u", "s", "d", " ">>}

\* what an LLM's JSON may hold in a field: null, a string, a number, a list, ...
JsonOdd ==
    {PyNone, Missing, Num(<<"0">>), Num(<<"7">>), Num(<<"5", ".", "5">>),
     Obj(<<"[", "]">>), Obj(<<"[", "1", "]">>), Obj(<<"T", "r", "u", "e">>)}

\* records of try_structured_parse (parsers.py 37-45): every field a str or None
SelectorRecords ==
    {With(EmptyRaw,
          [title |-> ti, rate |-> ra, currency |-> cu, term |-> PyNone,
           min_amount |-> ma, source |-> SomeUrl, parser |-> Str(<<"s", "e", "l">>)]) :
        ti \in {PyNone, Str(<<"T">>)},
        ra \in {PyNone} \cup {Str(x) : x \in RateTexts},
        cu \in {PyNone} \cup {Str(x) : x \in CurrencyTexts},
        ma \in {PyNone} \cup {Str(x) : x \in AmountTexts}}

\* records of the LLM tier (investment_analyzer.py 360-361): any JSON object
LlmRecords ==
    {With(EmptyRaw,
          [name |-> na, yield_rate |-> yr, currency |-> cu, min_investment |-> mi,
           url |-> ur]) :
        na \in {Missing, Str(<<"D">>)},
        yr \in {Str(x) : x \in RateTexts} \cup JsonOdd,
        cu \in {Str(x) : x \in CurrencyTexts} \cup JsonOdd,
        mi \in {Str(x) : x \in AmountTexts} \cup JsonOdd,
        ur \in {Missing, SomeUrl}}

RawRecords == SelectorRecords \cup LlmRecords

NormInit ==
    /\ raw \in RawRecords
    /\ product = <<>>
    /\ nraised = None
    /\ npc = "entry"
    /\ ChunkIdle
    /\ ScoreIdle
    /\ DigestIdle
    /\ ReportIdle
    /\ ParseIdle
    /\ BotIdle
    /\ SendIdle
    /\ CompareIdle

\* investment_analyzer.py 385-397: the record is built and returned
NormalizeReturn ==
    /\ npc = "entry"
    /\ CurrencyIsStr(raw)
    /\ product' = NormalizedProduct(raw)
    /\ npc' = "done"
    /\ UNCHANGED <<raw, nraised>>
    /\ UNCHANGED nonNormVars

\* investment_analyzer.py 390: .upper() of a value that is no str raises
NormalizeRaise ==
    /\ npc = "entry"
    /\ ~CurrencyIsStr(raw)
    /\ nraised' = "AttributeError"
    /\ npc' = "done"
    /\ UNCHANGED <<raw, product>>
    /\ UNCHANGED nonNormVars

NormNext == NormalizeReturn \/ NormalizeRaise

SpecNorm == NormInit /\ [][NormNext]_vars

(***************************************************************************)
(* generate_digest (bot.py 321-423) with scrape_many, scrape_url and       *)
(* _make_request (scraper.py 18-75) and the store step (database.py        *)
(* 186-227).                                                               *)
(***************************************************************************)
\* bot.py 326-370: the length of each category's URL list
CategorySize(c) ==
    CASE c = "macro" -> 4 [] c = "forex" -> 16 [] c = "commodities" -> 4
      [] c = "banks" -> 11

\* a URL is named by its list and its place in it
CategoryList(c) == [i \in 1..Min(CategorySize(c), MaxUrls) |-> <<c, i>>]

\* config.py 42-47: NEWS_SOURCES, the four URLs of "macro"
NewsSources == CategoryList("macro")

\* bot.py 373-378: the URL list of a category, "all" being every list in turn
ResolveUrls(c) ==
    IF c = "all"
    THEN Take(CategoryList("macro") \o CategoryList("forex")
              \o CategoryList("commodities") \o CategoryList("banks"), MaxUrls)
    ELSE IF c \in {"macro", "forex", "commodities", "banks"} THEN CategoryList(c)
    ELSE NewsSources

\* the texts generate_digest returns when it has no digest
MsgNoData == "no data for the digest, try later"
MsgNoSummaries == "no summary could be made"
MsgNoDigest == "no digest could be generated"

\* the exceptions a store operation raises: an SQLAlchemyError, or any other
ExcKinds == {"SQLAlchemyError", "Exception"}

\* llm.summarize_chunk (specification 4.3): a short text, or nothing on failure
SummarizeOutcomes == {"summary", None}

\* llm.aggregate_summaries (specification 4.3, 7): the digest text, empty when
\* the call failed
AggregateOutcomes == {"digest text", ""}

\* mutant of MayRetry: one retry too many
MayRetry_OneMore(r, m) == r <= m

\* scraper.py 24: if retries < self.max_retries
MayRetry(r, m) == r < m

\* mutant of NoArticles: the early return is never taken
NoArticles_Never(arts) == FALSE

\* bot.py 386: if not articles
NoArticles(arts) == arts = <<>>

\* bot.py 420: except SQLAlchemyError
Swallowed(kind) == kind = "SQLAlchemyError"

DigestInit ==
    /\ category \in {"macro", "forex", "commodities", "banks", "all", "crypto", None}
    /\ max_retries \in 0..MaxRetries
    /\ delay \in 0..MaxDelay
    /\ slept = Absent
    /\ SessionLocal \in {None, "sessionmaker"}
    /\ urls = <<>> /\ articles = <<>> /\ summaries = <<>>
    /\ digest = None /\ ret = None /\ raised = None /\ dpc = "entry"
    /\ ui = 0 /\ retries = 0 /\ response = None /\ sleeps = <<>>
    /\ attempts = 0 /\ failures = 0
    /\ nSummarize = 0 /\ nAggregate = 0 /\ ai = 0 /\ ci = 0
    /\ db_session = "none" /\ db_pending = 0 /\ db_rows = 0
    /\ ChunkIdle /\ ScoreIdle /\ NormIdle
    /\ ReportIdle
    /\ ParseIdle
    /\ BotIdle
    /\ SendIdle
    /\ CompareIdle

\* bot.py 372-380: the URL list is resolved
DigestResolve ==
    /\ dpc = "entry"
    /\ urls' = ResolveUrls(category)
    /\ dpc' = "scrape_many"
    /\ UNCHANGED <<category, articles, summaries, digest, ret, raised>>
    /\ UNCHANGED <<fetchVars, llmVars, storeVars, nonDigestVars>>

\* scraper.py 69-71, 43-46: the next URL is taken and _make_request(url) is called
ScrapeNextUrl ==
    /\ dpc = "scrape_many"
    /\ ui < Len(urls)
    /\ ui' = ui + 1
    /\ retries' = 0 /\ attempts' = 0 /\ failures' = 0
    /\ response' = None /\ sleeps' = <<>>
    /\ dpc' = "request"
    /\ UNCHANGED <<category, urls, articles, summaries, digest, ret, raised>>
    /\ UNCHANGED <<max_retries, delay, slept, llmVars, storeVars, nonDigestVars>>

\* scraper.py 19-22: the GET succeeds and the response is returned
RequestOk ==
    /\ dpc = "request"
    /\ attempts' = attempts + 1
    /\ response' = "response"
    /\ slept' = Some(0)
    /\ dpc' = "scrape_url"
    /\ UNCHANGED <<category, urls, articles, summaries, digest, ret, raised>>
    /\ UNCHANGED <<ui, retries, sleeps, failures, max_retries, delay>>
    /\ UNCHANGED <<llmVars, storeVars, nonDigestVars>>

\* scraper.py 19-26: the GET fails (transport or status), a retry is left:
\* sleep 2 ** retries, then _make_request(url, retries + 1)
RequestFailRetry ==
    /\ dpc = "request"
    /\ MayRetry(retries, max_retries)
    /\ attempts' = attempts + 1
    /\ failures' = failures + 1
    /\ sleeps' = Append(sleeps, 2 ^ retries)
    /\ slept' = Some(2 ^ retries)
    /\ retries' = retries + 1
    /\ UNCHANGED <<runVars, ui, response, max_retries, delay>>
    /\ UNCHANGED <<llmVars, storeVars, nonDigestVars>>

\* scraper.py 19-28: the GET fails and no retry is left: None is returned
RequestFailGiveUp ==
    /\ dpc = "request"
    /\ ~MayRetry(retries, max_retries)
    /\ attempts' = attempts + 1
    /\ failures' = failures + 1
    /\ response' = None
    /\ slept' = Some(0)
    /\ dpc' = "scrape_url"
    /\ UNCHANGED <<category, urls, articles, summaries, digest, ret, raised>>
    /\ UNCHANGED <<ui, retries, sleeps, max_retries, delay>>
    /\ UNCHANGED <<llmVars, storeVars, nonDigestVars>>

\* scrape_url has returned: the locals of the fetch are gone, and the counts of
\* requests start again with the next URL; scrape_many sleeps the delay
\* (scraper.py 74)
FetchReturned ==
    /\ retries' = 0 /\ response' = None /\ sleeps' = <<>>
    /\ attempts' = 0 /\ failures' = 0
    /\ slept' = Some(slept[1] + delay)

\* scraper.py 47-48, 72-74: no response, scrape_url returns None and the URL
\* adds no article; scrape_many sleeps the delay and goes on
ScrapeUrlNone ==
    /\ dpc = "scrape_url"
    /\ response = None
    /\ dpc' = "scrape_many"
    /\ FetchReturned
    /\ UNCHANGED <<category, urls, articles, summaries, digest, ret, raised>>
    /\ UNCHANGED <<ui, max_retries, delay, llmVars, storeVars, nonDigestVars>>

\* scraper.py 49-65, 72-74: the article of the page is appended; its text is
\* the page's, and chunk_text will give some number of chunks for it
ScrapeUrlArticle ==
    /\ dpc = "scrape_url"
    /\ response # None
    /\ \E n \in 0..MaxChunks :
          articles' = Append(articles, [url |-> urls[ui], chunks |-> n])
    /\ dpc' = "scrape_many"
    /\ FetchReturned
    /\ UNCHANGED <<category, urls, summaries, digest, ret, raised>>
    /\ UNCHANGED <<ui, max_retries, delay, llmVars, storeVars, nonDigestVars>>

\* scraper.py 69, 75 and bot.py 383-387: every URL was scraped and there is no
\* article: the no-data text is returned
DigestNoData ==
    /\ dpc = "scrape_many"
    /\ ~(ui < Len(urls))
    /\ NoArticles(articles)
    /\ ret' = MsgNoData
    /\ dpc' = "done"
    /\ UNCHANGED <<category, urls, articles, summaries, digest, raised>>
    /\ UNCHANGED <<fetchVars, llmVars, storeVars, nonDigestVars>>

\* scraper.py 69, 75 and bot.py 383-391: there are articles, the summary loop
\* starts at the first one
DigestStartSummaries ==
    /\ dpc = "scrape_many"
    /\ ~(ui < Len(urls))
    /\ ~NoArticles(articles)
    /\ ai' = 1 /\ ci' = 1
    /\ dpc' = "summarize"
    /\ UNCHANGED <<category, urls, articles, summaries, digest, ret, raised>>
    /\ UNCHANGED <<fetchVars, nSummarize, nAggregate, storeVars, nonDigestVars>>

\* bot.py 391-393: the chunks of the article are exhausted, the next article
SummarizeNextArticle ==
    /\ dpc = "summarize"
    /\ ai <= Len(articles)
    /\ ci > articles[ai].chunks
    /\ ai' = ai + 1 /\ ci' = 1
    /\ UNCHANGED <<runVars, fetchVars, nSummarize, nAggregate, storeVars, nonDigestVars>>

\* bot.py 393-396: summarize_chunk(c) is called; its summary is kept when it
\* gives one, the chunk is dropped when it gives none
SummarizeChunk ==
    /\ dpc = "summarize"
    /\ ai <= Len(articles)
    /\ ci <= articles[ai].chunks
    /\ nSummarize' = nSummarize + 1
    /\ \E sm \in SummarizeOutcomes :
          summaries' = IF sm # None
                       THEN Append(summaries, <<articles[ai].url, ci>>)
                       ELSE summaries
    /\ ci' = ci + 1
    /\ UNCHANGED <<category, urls, articles, digest, ret, raised, dpc>>
    /\ UNCHANGED <<fetchVars, nAggregate, ai, storeVars, nonDigestVars>>

\* bot.py 400-401: no summary at all
DigestNoSummaries ==
    /\ dpc = "summarize"
    /\ ai > Len(articles)
    /\ summaries = <<>>
    /\ ret' = MsgNoSummaries
    /\ dpc' = "done"
    /\ UNCHANGED <<category, urls, articles, summaries, digest, raised>>
    /\ UNCHANGED <<fetchVars, llmVars, storeVars, nonDigestVars>>

\* bot.py 404: digest = aggregate_summaries(summaries, category), a text that
\* may be empty
DigestAggregate ==
    /\ dpc = "summarize"
    /\ ai > Len(articles)
    /\ summaries # <<>>
    /\ nAggregate' = nAggregate + 1
    /\ digest' \in AggregateOutcomes
    /\ dpc' = "get_db"
    /\ UNCHANGED <<category, urls, articles, summaries, ret, raised>>
    /\ UNCHANGED <<fetchVars, nSummarize, ai, ci, storeVars, nonDigestVars>>

\* the store step ends by an exception: swallowed by except SQLAlchemyError
\* (bot.py 420-421), or leaving generate_digest
StoreFails(kind) ==
    IF Swallowed(kind)
    THEN dpc' = "return" /\ raised' = raised
    ELSE dpc' = "done" /\ raised' = kind

\* bot.py 409, database.py 223-227: get_db() gives a session; SessionLocal is
\* set by init_db() when it is None
StoreGetDb ==
    /\ dpc = "get_db"
    /\ SessionLocal' = "sessionmaker"
    /\ db_session' = "open"
    /\ dpc' = "add"
    /\ UNCHANGED <<category, urls, articles, summaries, digest, ret, raised>>
    /\ UNCHANGED <<fetchVars, llmVars, db_pending, db_rows, nonDigestVars>>

\* database.py 225-226, 186-220: SessionLocal is None and init_db() fails; it
\* logs the exception, whatever its class, and raises it again
StoreInitDbFails ==
    /\ dpc = "get_db"
    /\ SessionLocal = None
    /\ \E kind \in ExcKinds : StoreFails(kind)
    /\ UNCHANGED <<category, urls, articles, summaries, digest, ret>>
    /\ UNCHANGED <<fetchVars, llmVars, storeVars, nonDigestVars>>

\* bot.py 410-417: the Digest row is built and added to the session
StoreAdd ==
    /\ dpc = "add"
    /\ db_pending' = db_pending + 1
    /\ dpc' = "commit"
    /\ UNCHANGED <<category, urls, articles, summaries, digest, ret, raised>>
    /\ UNCHANGED <<fetchVars, llmVars, SessionLocal, db_session, db_rows, nonDigestVars>>

\* bot.py 417: db.add(d) raises
StoreAddFails ==
    /\ dpc = "add"
    /\ \E kind \in ExcKinds : StoreFails(kind)
    /\ UNCHANGED <<category, urls, articles, summaries, digest, ret>>
    /\ UNCHANGED <<fetchVars, llmVars, storeVars, nonDigestVars>>

\* bot.py 418: db.commit() writes the pending rows
StoreCommit ==
    /\ dpc = "commit"
    /\ db_rows' = db_rows + db_pending
    /\ db_pending' = 0
    /\ dpc' = "close"
    /\ UNCHANGED <<category, urls, articles, summaries, digest, ret, raised>>
    /\ UNCHANGED <<fetchVars, llmVars, SessionLocal, db_session, nonDigestVars>>

\* bot.py 418: db.commit() raises
StoreCommitFails ==
    /\ dpc = "commit"
    /\ \E kind \in ExcKinds : StoreFails(kind)
    /\ UNCHANGED <<category, urls, articles, summaries, digest, ret>>
    /\ UNCHANGED <<fetchVars, llmVars, storeVars, nonDigestVars>>

\* bot.py 419: db.close()
StoreClose ==
    /\ dpc = "close"
    /\ db_session' = "closed"
    /\ dpc' = "return"
    /\ UNCHANGED <<category, urls, articles, summaries, digest, ret, raised>>
    /\ UNCHANGED <<fetchVars, llmVars, SessionLocal, db_pending, db_rows, nonDigestVars>>

\* bot.py 423: return digest or the no-digest text
DigestReturn ==
    /\ dpc = "return"
    /\ ret' = IF digest # "" THEN digest ELSE MsgNoDigest
    /\ dpc' = "done"
    /\ UNCHANGED <<category, urls, articles, summaries, digest, raised>>
    /\ UNCHANGED <<fetchVars, llmVars, storeVars, nonDigestVars>>

DigestNext ==
    \/ DigestResolve
    \/ ScrapeNextUrl
    \/ RequestOk
    \/ RequestFailRetry
    \/ RequestFailGiveUp
    \/ ScrapeUrlNone
    \/ ScrapeUrlArticle
    \/ DigestNoData
    \/ DigestStartSummaries
    \/ SummarizeNextArticle
    \/ SummarizeChunk
    \/ DigestNoSummaries
    \/ DigestAggregate
    \/ StoreGetDb
    \/ StoreInitDbFails
    \/ StoreAdd
    \/ StoreAddFails
    \/ StoreCommit
    \/ StoreCommitFails
    \/ StoreClose
    \/ DigestReturn

SpecDigest == DigestInit /\ [][DigestNext]_vars

(***************************************************************************)
(* generate_full_investment_report (investment_analyzer.py 516-619).       *)
(***************************************************************************)
\* the most local articles one run is followed for
MaxReportArticles == 2
\* the most records parse_product_page gives for one article
MaxRecords == 1

\* investment_analyzer.py 535, 537, 542, 549: local_articles[:15], chunks[:2],
\* local_articles[:50], sorted(...)[:3]
ExtractArticleLimit == 15
ExtractChunkLimit == 2
ParseArticleLimit == 50
TopN == 3

\* the outcome of a run: still running (kind "none"), left by an exception
\* (kind "raised"), or returned (kind "returned")
NoOutcome == [kind |-> "none", value |-> None]
Raised(e) == [kind |-> "raised", value |-> e]

\* investment_analyzer.py 516-520: the profile parameters of the call
Profiles ==
    {[risk_profile |-> "medium", investment_horizon |-> "medium", amount |-> Absent],
     [risk_profile |-> "low", investment_horizon |-> "long", amount |-> Some(500000)]}

\* investment_analyzer.py 530: what scrape_investment_products('all') returns,
\* a list of articles; chunk_text gives `chunks` chunks for the text of each
ArticleLists ==
    UNION {[1..n -> [chunks : 0..MaxChunks]] : n \in 0..MaxReportArticles}

\* investment_analyzer.py 167-185: what extract_investment_data returns for a
\* chunk, a list that may be empty
ExtractResults == {<<>>, <<"record">>}

\* the product records parse_product_page returns: a normalized product, and
\* the placeholder record of 364-367
ReportProducts ==
    {[yield_rate |-> Some(10 * Scale), currency |-> "KZT", min_investment |-> Some(500000)],
     [yield_rate |-> Absent, currency |-> None, min_investment |-> Absent]}

\* investment_analyzer.py 342, 361, 364: the list parse_product_page returns
ParseResults == UNION {[1..n -> ReportProducts] : n \in 0..MaxRecords}

\* investment_analyzer.py 545: p['score'] = analyzer.score_product(p)
Scored(q) ==
    [yield_rate |-> q.yield_rate, currency |-> q.currency,
     min_investment |-> q.min_investment, score |-> ScoreOf(q)]

\* investment_analyzer.py 549: sorted(structured_products, key=score,
\* reverse=True), a stable sort
RECURSIVE SortByScoreDesc(_)
SortByScoreDesc(ps) ==
    IF ps = <<>> THEN <<>>
    ELSE LET init == SortByScoreDesc(SubSeq(ps, 1, Len(ps) - 1))
             x    == ps[Len(ps)]
             k    == Cardinality({i \in DOMAIN init : init[i].score >= x.score})
         IN  SubSeq(init, 1, k) \o <<x>> \o SubSeq(init, k + 1, Len(init))

ReportInit ==
    /\ profile \in Profiles
    /\ local_articles = <<>> /\ products_data = <<>>
    /\ parsed = <<>> /\ structured_products = <<>> /\ top3 = <<>>
    /\ rai = 0 /\ rci = 0 /\ rpi = 0 /\ rcalls = {} /\ rphase = "START"
    /\ routcome = NoOutcome /\ rpc = "scrape"
    /\ ChunkIdle /\ ScoreIdle /\ NormIdle /\ DigestIdle
    /\ ParseIdle
    /\ BotIdle
    /\ SendIdle
    /\ CompareIdle

\* investment_analyzer.py 524-530: the analyzer is built and the local sources
\* are scraped
ReportScrapeLocal ==
    /\ rpc = "scrape"
    /\ local_articles' \in ArticleLists
    /\ rcalls' = rcalls \cup {"scrape_investment_products"}
    /\ rphase' = "FETCHING"
    /\ rai' = 1 /\ rci' = 1
    /\ rpc' = "extract"
    /\ UNCHANGED <<profile, products_data, parsed, structured_products, top3, rpi, routcome>>
    /\ UNCHANGED nonReportVars

\* investment_analyzer.py 537-540: extract_investment_data(chunk, 'mixed') for
\* one of the first two chunks of the article; a non-empty list is kept
ReportExtractChunk ==
    /\ rpc = "extract"
    /\ rai <= Min(Len(local_articles), ExtractArticleLimit)
    /\ rci <= Min(local_articles[rai].chunks, ExtractChunkLimit)
    /\ \E data \in ExtractResults :
          products_data' = IF data # <<>>
                           THEN Append(products_data, <<rai, rci>>)
                           ELSE products_data
    /\ rcalls' = rcalls \cup {"extract_investment_data"}
    /\ rphase' = "EXTRACTING"
    /\ rci' = rci + 1
    /\ UNCHANGED <<profile, local_articles, parsed, structured_products, top3,
                   rai, rpi, routcome, rpc>>
    /\ UNCHANGED nonReportVars

\* investment_analyzer.py 535-537: the chunks of the article are done, the next
\* article
ReportExtractNextArticle ==
    /\ rpc = "extract"
    /\ rai <= Min(Len(local_articles), ExtractArticleLimit)
    /\ rci > Min(local_articles[rai].chunks, ExtractChunkLimit)
    /\ rai' = rai + 1 /\ rci' = 1
    /\ UNCHANGED <<profile, local_articles, products_data, parsed,
                   structured_products, top3, rpi, rcalls, rphase, routcome, rpc>>
    /\ UNCHANGED nonReportVars

\* investment_analyzer.py 535, 541-542: the extraction loop is over, the loop
\* over the pages starts
ReportStartParse ==
    /\ rpc = "extract"
    /\ rai > Min(Len(local_articles), ExtractArticleLimit)
    /\ rai' = 1 /\ rci' = 0
    /\ rpc' = "parse"
    /\ UNCHANGED <<profile, local_articles, products_data, parsed,
                   structured_products, top3, rpi, rcalls, rphase, routcome>>
    /\ UNCHANGED nonReportVars

\* investment_analyzer.py 543: parse_product_page(art) returns its records
ReportParsePage ==
    /\ rpc = "parse"
    /\ rai <= Min(Len(local_articles), ParseArticleLimit)
    /\ parsed' \in ParseResults
    /\ rcalls' = rcalls \cup {"parse_product_page"}
    /\ rphase' = "EXTRACTING"
    /\ rpi' = 1
    /\ rpc' = "score"
    /\ UNCHANGED <<profile, local_articles, products_data, structured_products,
                   top3, rai, rci, routcome>>
    /\ UNCHANGED nonReportVars

\* investment_analyzer.py 543, 349-356: the LLM call of parse_product_page is
\* in no try block; its exception leaves the run
ReportParseRaises ==
    /\ rpc = "parse"
    /\ rai <= Min(Len(local_articles), ParseArticleLimit)
    /\ rcalls' = rcalls \cup {"parse_product_page"}
    /\ rphase' = "FAILED"
    /\ routcome' = Raised("APIError")
    /\ rpc' = "done"
    /\ UNCHANGED <<profile, local_articles, products_data, parsed,
                   structured_products, top3, rai, rci, rpi>>
    /\ UNCHANGED nonReportVars

\* investment_analyzer.py 544-546: the next record of the page is scored and
\* appended
ReportScoreProduct ==
    /\ rpc = "score"
    /\ rpi <= Len(parsed)
    /\ structured_products' = Append(structured_products, Scored(parsed[rpi]))
    /\ rcalls' = rcalls \cup {"score_product"}
    /\ rphase' = "SCORING"
    /\ rpi' = rpi + 1
    /\ UNCHANGED <<profile, local_articles, products_data, parsed, top3,
                   rai, rci, routcome, rpc>>
    /\ UNCHANGED nonReportVars

\* investment_analyzer.py 542-544: the records of the page are done, the next
\* page
ReportNextPage ==
    /\ rpc = "score"
    /\ rpi > Len(parsed)
    /\ rai' = rai + 1 /\ rpi' = 0
    /\ parsed' = <<>>
    /\ rpc' = "parse"
    /\ UNCHANGED <<profile, local_articles, products_data, structured_products,
                   top3, rci, rcalls, rphase, routcome>>
    /\ UNCHANGED nonReportVars

\* investment_analyzer.py 549: top3, the three best-scored products
ReportRank ==
    /\ rpc = "parse"
    /\ rai > Min(Len(local_articles), ParseArticleLimit)
    /\ top3' = Take(SortByScoreDesc(structured_products), TopN)
    /\ rphase' = "SCORING"
    /\ rpc' = "save"
    /\ UNCHANGED <<profile, local_articles, products_data, parsed,
                   structured_products, rai, rci, rpi, rcalls, routcome>>
    /\ UNCHANGED nonReportVars

\* investment_analyzer.py 550-559: the arguments of save_investment_report are
\* evaluated; datetime is the module (line 11 rebinds the class of line 9), so
\* datetime.utcnow() of line 553 raises AttributeError, before
\* market_conditions (bound at 573 only) is read and before the call
ReportSaveSnapshot ==
    /\ rpc = "save"
    /\ rphase' = "FAILED"
    /\ routcome' = Raised("AttributeError")
    /\ rpc' = "done"
    /\ UNCHANGED <<profile, local_articles, products_data, parsed,
                   structured_products, top3, rai, rci, rpi, rcalls>>
    /\ UNCHANGED nonReportVars

\* investment_analyzer.py 581-587: the products argument the recommendation
\* call is written with (the lists extract_investment_data returned, not the
\* scored records)
RecommendationProducts == products_data

ReportNext ==
    \/ ReportScrapeLocal
    \/ ReportExtractChunk
    \/ ReportExtractNextArticle
    \/ ReportStartParse
    \/ ReportParsePage
    \/ ReportParseRaises
    \/ ReportScoreProduct
    \/ ReportNextPage
    \/ ReportRank
    \/ ReportSaveSnapshot

SpecReport == ReportInit /\ [][ReportNext]_vars

(***************************************************************************)
(* parse_product_page (investment_analyzer.py 322-367) with                *)
(* try_structured_parse (parsers.py 19-47), and extract_investment_data    *)
(* (investment_analyzer.py 150-185).                                       *)
(***************************************************************************)
\* the most product blocks of a page
MaxBlocks == 1
\* the most elements of a JSON array the LLM answers
MaxItems == 1

\* investment_analyzer.py 366: article.get('text')[:1000]
ExcerptLen == 1000

\* s.startswith(pre)
HasPrefix(cs, pre) == Len(cs) >= Len(pre) /\ SubSeq(cs, 1, Len(pre)) = pre

\* s[n:]
Drop(cs, n) == SubSeq(cs, n + 1, Len(cs))

\* the longest prefix of cs without a '/'
RECURSIVE UpToSlash(_)
UpToSlash(cs) ==
    IF cs = <<>> \/ Head(cs) = "/" THEN <<>> ELSE <<Head(cs)>> \o UpToSlash(Tail(cs))

\* parsers.py 19-21: re.search(r"https?://(www\.)?([^/]+)", url), group 2, for
\* a url that starts with its scheme (scrape_url gives such urls, scraper.py
\* 44-45); "" when there is no match
domain_from_url(url) ==
    LET rest == IF HasPrefix(url, <<"h", "t", "t", "p", "s", ":", "/", "/">>) THEN Drop(url, 8)
                ELSE IF HasPrefix(url, <<"h", "t", "t", "p", ":", "/", "/">>) THEN Drop(url, 7)
                ELSE <<>>
        www  == <<"w", "w", "w", ".">>
        host == IF HasPrefix(rest, www) /\ UpToSlash(Drop(rest, 4)) # <<>>
                THEN UpToSlash(Drop(rest, 4))
                ELSE UpToSlash(rest)
    IN  host

\* parsers.py 7-17: the domains of PROVIDER_SELECTORS
RegisteredDomains == {<<"f", "o", "r", "t", "e", ".", "k", "z">>}

\* the urls of the pages: the registered domain, with and without www., and a
\* subdomain of it (investment_analyzer.py 54 lists bank.forte.kz)
PageUrls ==
    {<<"h", "t", "t", "p", "s", ":", "/", "/", "f", "o", "r", "t", "e", ".", "k", "z", "/", "d">>,
     <<"h", "t", "t", "p", ":", "/", "/", "w", "w", "w", ".", "f", "o", "r", "t", "e", ".", "k", "z">>,
     <<"h", "t", "t", "p", "s", ":", "/", "/", "b", "a", "n", "k", ".", "f", "o", "r", "t", "e", ".", "k", "z", "/", "d">>}

PageTitle == Str(<<"T">>)
Unknown == Str(<<"u", "n", "k", "n", "o", "w", "n">>)

\* the article given to parse_product_page: raw_html is "missing" (no such
\* key, what scrape_url gives), "empty" or "html"; blocks is the number of
\* product blocks the page holds, and broken tells that a block holds no title
\* element
Articles ==
    [url : PageUrls, raw_html : {"missing", "empty", "html"}, blocks : 0..MaxBlocks,
     broken : BOOLEAN, text : {<<>>, <<"t", "x", "t">>}]

\* parsers.py 31-45: the record of one block
SelectorBlockRecords(url) ==
    {With(EmptyRaw,
          [title |-> PageTitle, rate |-> Str(<<"5", ",", "5", "%">>), currency |-> cu,
           term |-> PyNone, min_amount |-> PyNone, source |-> Str(url),
           parser |-> Str(<<"s", "e", "l">>)]) :
        cu \in {PyNone, Str(<<"k", "z", "t">>), Str(<<"T", "e", "n", "g", "e">>)}}

\* parsers.py 23-47: try_structured_parse(html, url) for a page whose blocks
\* give the records recs.  raised: a block without a title element makes line
\* 31 call get_text on None.  None (lines 46-47) is kept as the empty list:
\* parse_product_page tests only its truth.
try_structured_parse(art, recs) ==
    IF domain_from_url(art.url) \notin RegisteredDomains
    THEN [raised |-> FALSE, records |-> <<>>]
    ELSE IF art.blocks >= 1 /\ art.broken
    THEN [raised |-> TRUE, records |-> <<>>]
    ELSE [raised |-> FALSE, records |-> recs]

\* investment_analyzer.py 333-338: parsed, None being kept as the empty list
SelectorTier(art, recs) ==
    IF art.raw_html = "html"
    THEN (IF try_structured_parse(art, recs).raised THEN <<>>
          ELSE try_structured_parse(art, recs).records)
    ELSE <<>>

\* mutant of UseSelector: the records of the selector tier are never used
UseSelector_Never(parsed0) == FALSE

\* investment_analyzer.py 340: if parsed
UseSelector(parsed0) == parsed0 # <<>>

\* an element of a parsed JSON value: a dict (v is the object), a str, a
\* number or None
Elem(t, v) == [t |-> t, v |-> v]

\* the objects an LLM answers with
LlmObjects ==
    {EmptyRaw} \cup
    {With(EmptyRaw, [name |-> Str(<<"D">>), currency |-> cu]) :
        cu \in {Str(<<"K", "Z", "T">>), Str(<<"k", "z", "t">>), Str(<<"u", "s">>),
                Str(<<"T", "e", "n", "g", "e">>), PyNone, Num(<<"7">>)}}

\* the elements of a JSON array
LlmItems == {Elem("dict", o) : o \in LlmObjects} \cup {Elem("num", EmptyRaw)}

\* json.loads(txt): the text is no JSON ("invalid"), or it is null, a number,
\* a string (items: its characters), an object (items: the object) or an array
LlmAnswers ==
    {[kind |-> k, items |-> <<>>] : k \in {"invalid", "null", "number", "string"}}
    \cup {[kind |-> "string", items |-> <<Elem("str", EmptyRaw)>>]}
    \cup {[kind |-> "object", items |-> <<Elem("dict", o)>>] : o \in LlmObjects}
    \cup {[kind |-> "array", items |-> its] :
             its \in UNION {[1..n -> LlmItems] : n \in 0..MaxItems}}

\* the keys an object holds
KeysOf(o) == {k \in RawKeys : o[k].t # "missing"}

\* investment_analyzer.py 361: "for o in objs" goes over the elements of a
\* list, the keys of a dict and the characters of a str; anything else raises
\* TypeError
Iterable(j) == j.kind \in {"array", "object", "string"}

Iterate(j) ==
    IF j.kind = "object"
    THEN [i \in 1..Cardinality(KeysOf(j.items[1].v)) |-> Elem("str", EmptyRaw)]
    ELSE j.items

\* investment_analyzer.py 361, 386-395: _normalize_parsed(o) returns: o has
\* .get (it is a dict) and its currency has .upper
NormalizeOk(el) == el.t = "dict" /\ CurrencyIsStr(el.v)

\* investment_analyzer.py 359-362: json.loads and the list comprehension raise
\* nothing
DecodeOk(j) ==
    /\ j.kind # "invalid"
    /\ Iterable(j)
    /\ \A i \in DOMAIN Iterate(j) : NormalizeOk(Iterate(j)[i])

\* a product record with its confidence field (held by the placeholder only)
WithConfidence(np, c) ==
    [k \in DOMAIN np \cup {"confidence"} |-> IF k = "confidence" THEN c ELSE np[k]]

\* investment_analyzer.py 342, 361: the records normalized
NormalizeAll(rs) == [i \in DOMAIN rs |-> WithConfidence(NormalizedProduct(rs[i]), Missing)]

\* investment_analyzer.py 364-367: the placeholder record
Placeholder(art) ==
    [name            |-> PageTitle,
     type            |-> Unknown,
     provider        |-> Unknown,
     yield_rate      |-> PyNone,
     currency        |-> PyNone,
     term            |-> PyNone,
     risk_level      |-> Unknown,
     min_investment  |-> PyNone,
     url             |-> Str(art.url),
     additional_info |-> Obj(Take(art.text, ExcerptLen)),
     confidence      |-> Str(<<"l", "l", "m", "_", "f", "r", "e", "e">>)]

\* investment_analyzer.py 359-367: the list returned by the LLM tier
DecodeResult(art, j) ==
    IF DecodeOk(j)
    THEN NormalizeAll([i \in DOMAIN Iterate(j) |-> Iterate(j)[i].v])
    ELSE <<Placeholder(art)>>

\* investment_analyzer.py 170-181: the list extract_investment_data returns:
\* the array itself, any other JSON value wrapped into a list, [] for no JSON
ExtractResult(j) ==
    IF j.kind = "invalid" THEN <<>>
    ELSE IF j.kind = "array" THEN j.items
    ELSE IF j.kind = "object" THEN j.items
    ELSE IF j.kind = "null" THEN <<Elem("none", EmptyRaw)>>
    ELSE IF j.kind = "number" THEN <<Elem("num", EmptyRaw)>>
    ELSE <<Elem("str", EmptyRaw)>>

NoAnswer == [kind |-> "none", items |-> <<>>]

ParseInit ==
    /\ pfun \in {"parse_product_page", "extract_investment_data"}
    /\ particle \in Articles
    /\ (pfun = "extract_investment_data" =>
           particle.raw_html = "missing" /\ particle.blocks = 0 /\ ~particle.broken)
    /\ tier1 = <<>>
    /\ answer = NoAnswer
    /\ presult = <<>> /\ extracted = <<>> /\ llm_calls = 0
    /\ praised = None /\ ppc = "entry"
    /\ ChunkIdle /\ ScoreIdle /\ NormIdle /\ DigestIdle /\ ReportIdle
    /\ BotIdle
    /\ SendIdle
    /\ CompareIdle

\* investment_analyzer.py 327-338: the selector tier
ParseSelectorTier ==
    /\ ppc = "entry"
    /\ pfun = "parse_product_page"
    /\ \E recs \in [1..particle.blocks -> SelectorBlockRecords(particle.url)] :
          tier1' = SelectorTier(particle, recs)
    /\ ppc' = "tier1"
    /\ UNCHANGED <<pfun, particle, answer, presult, extracted, llm_calls, praised>>
    /\ UNCHANGED nonParseVars

\* investment_analyzer.py 340-342: the records of the selector tier are
\* normalized and returned
ParseReturnSelector ==
    /\ ppc = "tier1"
    /\ UseSelector(tier1)
    /\ presult' = NormalizeAll(tier1)
    /\ ppc' = "done"
    /\ UNCHANGED <<pfun, particle, tier1, answer, extracted, llm_calls, praised>>
    /\ UNCHANGED nonParseVars

\* investment_analyzer.py 345-360: the LLM is asked and its answer is parsed
ParseLlmCall ==
    /\ ppc = "tier1"
    /\ ~UseSelector(tier1)
    /\ llm_calls' = llm_calls + 1
    /\ answer' \in LlmAnswers
    /\ ppc' = "decode"
    /\ UNCHANGED <<pfun, particle, tier1, presult, extracted, praised>>
    /\ UNCHANGED nonParseVars

\* investment_analyzer.py 349-356: the LLM call raises, outside any try block
ParseLlmRaises ==
    /\ ppc = "tier1"
    /\ ~UseSelector(tier1)
    /\ llm_calls' = llm_calls + 1
    /\ praised' = "APIError"
    /\ ppc' = "done"
    /\ UNCHANGED <<pfun, particle, tier1, answer, presult, extracted>>
    /\ UNCHANGED nonParseVars

\* investment_analyzer.py 359-367: the records of the answer, or the
\* placeholder
ParseDecode ==
    /\ ppc = "decode"
    /\ pfun = "parse_product_page"
    /\ presult' = DecodeResult(particle, answer)
    /\ ppc' = "done"
    /\ UNCHANGED <<pfun, particle, tier1, answer, extracted, llm_calls, praised>>
    /\ UNCHANGED nonParseVars

\* investment_analyzer.py 150-167: extract_investment_data asks the LLM
ExtractLlmCall ==
    /\ ppc = "entry"
    /\ pfun = "extract_investment_data"
    /\ llm_calls' = llm_calls + 1
    /\ answer' \in LlmAnswers
    /\ ppc' = "decode"
    /\ UNCHANGED <<pfun, particle, tier1, presult, extracted, praised>>
    /\ UNCHANGED nonParseVars

\* investment_analyzer.py 183-185: the LLM call raises; [] is returned
ExtractLlmRaises ==
    /\ ppc = "entry"
    /\ pfun = "extract_investment_data"
    /\ llm_calls' = llm_calls + 1
    /\ extracted' = <<>>
    /\ ppc' = "done"
    /\ UNCHANGED <<pfun, particle, tier1, answer, presult, praised>>
    /\ UNCHANGED nonParseVars

\* investment_analyzer.py 170-181: the answer is parsed and returned
ExtractDecode ==
    /\ ppc = "decode"
    /\ pfun = "extract_investment_data"
    /\ extracted' = ExtractResult(answer)
    /\ ppc' = "done"
    /\ UNCHANGED <<pfun, particle, tier1, answer, presult, llm_calls, praised>>
    /\ UNCHANGED nonParseVars

ParseNext ==
    \/ ParseSelectorTier
    \/ ParseReturnSelector
    \/ ParseLlmCall
    \/ ParseLlmRaises
    \/ ParseDecode
    \/ ExtractLlmCall
    \/ ExtractLlmRaises
    \/ ExtractDecode

SpecParse == ParseInit /\ [][ParseNext]_vars

(***************************************************************************)
(* The bot (bot.py): the event loop, the handlers that start a pipeline    *)
(* run, the worker threads of asyncio.to_thread, and the daily job.        *)
(*                                                                         *)
(* The application is built with its defaults (bot.py 512), so the updates *)
(* are handled one after the other: the next one is dispatched when the    *)
(* handler of the one before has returned.                                 *)
(***************************************************************************)
\* the most updates users send in one behaviour
MaxUpdates == 2
\* the most runs of the daily job in one behaviour
MaxJobs == 1

\* the updates that start a pipeline run: a digest_* callback (bot.py 128),
\* the /global command (112), and the callbacks invest_full (172),
\* invest_global (211) and compare_* (244)
UpdateKinds == {"digest", "global_command", "invest_full", "invest_global", "compare"}

\* bot.py 181, 214, 267: the handlers that hand their run to asyncio.to_thread;
\* bot.py 150 awaits generate_digest, a coroutine that never awaits, and
\* bot.py 118 calls get_international_outlook directly
UsesToThread(k) == k \in {"invest_full", "invest_global", "compare"}

\* the FinancialScraper (and its requests.Session) a run fetches with: the
\* module global scraper (bot.py 25, used at 383), the one of the module
\* global investment_analyzer (bot.py 26, investment_analyzer.py 38), or the
\* one of the analyzer the run builds (investment_analyzer.py 524)
ScraperOf(k) ==
    CASE k \in {"digest", "scheduled_digest"} -> "bot.scraper"
      [] k \in {"global_command", "invest_global", "compare"} ->
             "bot.investment_analyzer.scraper"
      [] k = "invest_full" -> "built by the run"

NoHandler == [kind |-> "none", at |-> "none"]

\* the event loop's thread is not inside a synchronous call
LoopFree == loop_run = "none"

BotInit ==
    /\ sent = 0 /\ incoming = <<>> /\ update_queue = <<>>
    /\ handler = NoHandler
    /\ loop_run = "none" /\ worker_run = "none" /\ future_done = FALSE
    /\ jobs_run = 0
    /\ ChunkIdle /\ ScoreIdle /\ NormIdle /\ DigestIdle /\ ReportIdle /\ ParseIdle
    /\ SendIdle
    /\ CompareIdle

\* a user sends a command or presses a button
UserSends(k) ==
    /\ sent < MaxUpdates
    /\ sent' = sent + 1
    /\ incoming' = Append(incoming, k)
    /\ UNCHANGED <<update_queue, handler, loop_run, worker_run, future_done, jobs_run>>
    /\ UNCHANGED nonBotVars

\* bot.py 571: the polling task of run_polling, a task of the event loop,
\* fetches the next update into the update queue
BotAcceptUpdate ==
    /\ LoopFree
    /\ incoming # <<>>
    /\ update_queue' = Append(update_queue, Head(incoming))
    /\ incoming' = Tail(incoming)
    /\ UNCHANGED <<sent, handler, loop_run, worker_run, future_done, jobs_run>>
    /\ UNCHANGED nonBotVars

\* bot.py 537-539, 530: the next update of the queue is given to its handler,
\* which runs up to its pipeline call (bot.py 115, 136-144, 167-173, 212,
\* 247-264)
BotDispatch ==
    /\ LoopFree
    /\ handler = NoHandler
    /\ update_queue # <<>>
    /\ handler' = [kind |-> Head(update_queue), at |-> "start"]
    /\ update_queue' = Tail(update_queue)
    /\ UNCHANGED <<sent, incoming, loop_run, worker_run, future_done, jobs_run>>
    /\ UNCHANGED nonBotVars

\* bot.py 150, 118: the handler runs the pipeline itself, on the thread of
\* the event loop
HandlerRunsOnLoop ==
    /\ LoopFree
    /\ handler.at = "start"
    /\ ~UsesToThread(handler.kind)
    /\ loop_run' = handler.kind
    /\ handler' = [handler EXCEPT !.at = "running"]
    /\ UNCHANGED <<sent, incoming, update_queue, worker_run, future_done, jobs_run>>
    /\ UNCHANGED nonBotVars

\* bot.py 181, 214, 267: the handler hands the run to a worker thread and is
\* suspended
HandlerToThread ==
    /\ LoopFree
    /\ handler.at = "start"
    /\ UsesToThread(handler.kind)
    /\ worker_run' = handler.kind
    /\ handler' = [handler EXCEPT !.at = "awaiting"]
    /\ UNCHANGED <<sent, incoming, update_queue, loop_run, future_done, jobs_run>>
    /\ UNCHANGED nonBotVars

\* the run on the event loop's thread returns (or raises): to its handler
\* (bot.py 151, 121), or to the daily job (bot.py 314-317)
LoopRunFinishes ==
    /\ loop_run # "none"
    /\ loop_run' = "none"
    /\ handler' = IF loop_run = "scheduled_digest" THEN handler
                  ELSE [handler EXCEPT !.at = "reply"]
    /\ UNCHANGED <<sent, incoming, update_queue, worker_run, future_done, jobs_run>>
    /\ UNCHANGED nonBotVars

\* the run in the worker thread returns (or raises): its future is done
WorkerFinishes ==
    /\ worker_run # "none"
    /\ worker_run' = "none"
    /\ future_done' = TRUE
    /\ UNCHANGED <<sent, incoming, update_queue, handler, loop_run, jobs_run>>
    /\ UNCHANGED nonBotVars

\* bot.py 181, 214, 267: the suspended handler resumes with the result
HandlerResumes ==
    /\ LoopFree
    /\ handler.at = "awaiting"
    /\ future_done
    /\ future_done' = FALSE
    /\ handler' = [handler EXCEPT !.at = "reply"]
    /\ UNCHANGED <<sent, incoming, update_queue, loop_run, worker_run, jobs_run>>
    /\ UNCHANGED nonBotVars

\* bot.py 121-125, 155-161, 189-194, 216-220, 269-273: the handler sends the
\* result, or its error text, and returns
HandlerReplies ==
    /\ LoopFree
    /\ handler.at = "reply"
    /\ handler' = NoHandler
    /\ UNCHANGED <<sent, incoming, update_queue, loop_run, worker_run, future_done,
                   jobs_run>>
    /\ UNCHANGED nonBotVars

\* bot.py 555-558, 310-314: the daily job is due; its task awaits
\* generate_digest(), which runs on the thread of the event loop
JobRuns ==
    /\ LoopFree
    /\ jobs_run < MaxJobs
    /\ jobs_run' = jobs_run + 1
    /\ loop_run' = "scheduled_digest"
    /\ UNCHANGED <<sent, incoming, update_queue, handler, worker_run, future_done>>
    /\ UNCHANGED nonBotVars

BotNext ==
    \/ \E k \in UpdateKinds : UserSends(k)
    \/ BotAcceptUpdate
    \/ BotDispatch
    \/ HandlerRunsOnLoop
    \/ HandlerToThread
    \/ LoopRunFinishes
    \/ WorkerFinishes
    \/ HandlerResumes
    \/ HandlerReplies
    \/ JobRuns

SpecBot == BotInit /\ [][BotNext]_vars

(***************************************************************************)
(* The delivery of a workflow's text by the handlers and by the daily job  *)
(* (bot.py 121-122, 153-155, 188-190, 216-217, 269-270, 316-317).          *)
(***************************************************************************)
\* the longest text delivered has MaxSegments full segments and one character
MaxSegments == 2

\* bot.py 121, 153, 188, 216, 269, 317: the size of a segment
SegmentLimit == 3900

\* who delivers: the handlers of UpdateKinds and the daily job
Senders == UpdateKinds \cup {"scheduled_digest"}

\* the lengths of the texts delivered: around each multiple of the limit
TextLengths ==
    {k * SegmentLimit + d : k \in 0..MaxSegments, d \in {0, 1}}
    \cup {SegmentLimit - 1}

\* text[a:b] of a text of length n, as the offsets it spans
Slice(n, a, b) == <<Min(a, n), Min(b, n)>>

SendInit ==
    /\ sender \in Senders
    /\ text_len \in TextLengths
    /\ seg_i = 0
    /\ segments = <<>>
    /\ sndpc = "send"
    /\ ChunkIdle /\ ScoreIdle /\ NormIdle /\ DigestIdle /\ ReportIdle /\ ParseIdle
    /\ BotIdle
    /\ CompareIdle

\* bot.py 121-122 (and 153-155, 188-190, 216-217, 269-270): the next
\* text[i:i + 3900] of range(0, len(text), 3900) is sent with reply_text
HandlerSendsSegment ==
    /\ sndpc = "send"
    /\ sender \in UpdateKinds
    /\ seg_i < text_len
    /\ segments' = Append(segments, Slice(text_len, seg_i, seg_i + SegmentLimit))
    /\ seg_i' = seg_i + SegmentLimit
    /\ UNCHANGED <<sender, text_len, sndpc>>
    /\ UNCHANGED nonSendVars

\* bot.py 121: the range is exhausted
HandlerSendEnds ==
    /\ sndpc = "send"
    /\ sender \in UpdateKinds
    /\ ~(seg_i < text_len)
    /\ sndpc' = "done"
    /\ UNCHANGED <<sender, text_len, seg_i, segments>>
    /\ UNCHANGED nonSendVars

\* bot.py 316-317: the daily job sends digest_text[:3900] to an admin, in one
\* message
JobSends ==
    /\ sndpc = "send"
    /\ sender = "scheduled_digest"
    /\ segments' = <<Slice(text_len, 0, SegmentLimit)>>
    /\ sndpc' = "done"
    /\ UNCHANGED <<sender, text_len, seg_i>>
    /\ UNCHANGED nonSendVars

SendNext == HandlerSendsSegment \/ HandlerSendEnds \/ JobSends

SpecSend == SendInit /\ [][SendNext]_vars

(***************************************************************************)
(* compare_products (investment_analyzer.py 415-421) and the sources       *)
(* scrape_investment_products picks (investment_analyzer.py 41-96).        *)
(***************************************************************************)
\* investment_analyzer.py 41-69: self.local_sources; adjacent string literals
\* with no comma between them are one list element (lines 45-46, 51-58)
local_sources ==
    [bonds |->
        <<"https://kase.kz/ru/markets/government-securities",
          "https://kase.kz/ru/markets/corporate-bonds",
          "https://kase.kz/ru/markets/investment-fund-securities"
              \o "https://aix.kz/ru/debt-market">>,
     deposits |->
        <<"https://nationalbank.kz/en/news/vklady-v-bankah-v-regionalnom-razreze-",
          "https://kdif.kz/",
          "https://halykbank.kz/deposits-ru"
              \o "https://www.bcc.kz/personal/deposits/"
              \o "https://bank.forte.kz/ru/deposits"
              \o "https://berekebank.kz/ru/personal/deposits"
              \o "https://jusan.kz/ru/deposits"
              \o "https://bankrbk.kz/ru/individuals/deposits"
              \o "https://bankffin.kz/ru/deposits/physical">>,
     mutual_funds |->
        <<"https://kase.kz/ru/markets/investment-fund-securities",
          "https://halykfinance.kz/ipif/?lang=ru",
          "https://www.bcc-invest.kz/products/open-pi/">>,
     broker_platforms |->
        <<"https://ffin.kz/ru",
          "https://halykfinance.kz/brokerskoe-obsluzhivanie/?lang=ru",
          "https://www.interactivebrokers.com/ru/home.php",
          "https://www.bcc-invest.kz/products/brokerage/">>]

\* investment_analyzer.py 71-77
international_sources ==
    <<"https://www.investing.com/rates-bonds/world-government-bonds",
      "https://finance.yahoo.com/bonds",
      "https://www.bloomberg.com/markets/rates-bonds",
      "https://www.investing.com/commodities/gold",
      "https://www.investing.com/currencies/usd-kzt">>

\* investment_analyzer.py 91-92, 95-96: urls.extend(cat_urls) over
\* local_sources.values()
AllLocalSources ==
    local_sources.bonds \o local_sources.deposits
        \o local_sources.mutual_funds \o local_sources.broker_platforms

\* investment_analyzer.py 85-96: the urls list for a category
SourcesFor(c) ==
    IF c \in DOMAIN local_sources THEN local_sources[c]
    ELSE IF c = "international" THEN international_sources
    ELSE AllLocalSources

\* bot.py 96-101, 200-205, 253: the product types of the compare_* buttons
BotProductTypes == {"deposits", "bonds", "mutual_funds", "brokers"}

CompareInit ==
    /\ product_type \in BotProductTypes
    /\ source_urls = <<>>
    /\ sui = 0
    /\ scraped = <<>>
    /\ found = 0
    /\ cmppc = "entry"
    /\ ChunkIdle /\ ScoreIdle /\ NormIdle /\ DigestIdle /\ ReportIdle /\ ParseIdle
    /\ BotIdle /\ SendIdle

\* investment_analyzer.py 419, 85-96: scrape_investment_products resolves the
\* urls of the category
CompareResolve ==
    /\ cmppc = "entry"
    /\ source_urls' = SourcesFor(product_type)
    /\ cmppc' = "scrape_many"
    /\ UNCHANGED <<product_type, sui, scraped, found>>
    /\ UNCHANGED nonCompareVars

\* investment_analyzer.py 98, scraper.py 68-74: the next URL is requested; it
\* gives an article or nothing
CompareScrapeUrl ==
    /\ cmppc = "scrape_many"
    /\ sui < Len(source_urls)
    /\ sui' = sui + 1
    /\ scraped' = Append(scraped, source_urls[sui + 1])
    /\ found' \in {found, found + 1}
    /\ UNCHANGED <<product_type, source_urls, cmppc>>
    /\ UNCHANGED nonCompareVars

\* investment_analyzer.py 420-421: no article, the no-data text is returned
CompareNoData ==
    /\ cmppc = "scrape_many"
    /\ sui = Len(source_urls)
    /\ found = 0
    /\ cmppc' = "no data"
    /\ UNCHANGED <<product_type, source_urls, sui, scraped, found>>
    /\ UNCHANGED nonCompareVars

\* investment_analyzer.py 423-430: the articles go to extraction
CompareExtract ==
    /\ cmppc = "scrape_many"
    /\ sui = Len(source_urls)
    /\ found > 0
    /\ cmppc' = "extract"
    /\ UNCHANGED <<product_type, source_urls, sui, scraped, found>>
    /\ UNCHANGED nonCompareVars

CompareNext == CompareResolve \/ CompareScrapeUrl \/ CompareNoData \/ CompareExtract

SpecCompare == CompareInit /\ [][CompareNext]_vars

(***************************************************************************)
(* Claims about chunk_text, checked under SpecChunk.                       *)
(***************************************************************************)
RECURSIVE Flatten(_)
Flatten(ps) == IF ps = <<>> THEN <<>> ELSE Head(ps) \o Flatten(Tail(ps))

\* the non-whitespace characters of a text, in order
NonSpace(s) == SelectSeq(s, LAMBDA c : ~IsSpace(c))

\* a newline at one of the 0-based indexes from..(max_chars - 1) of the text
NewlineInWindow(s, m, from) == \E i \in from..(Min(m, Len(s)) - 1) : s[i + 1] = NL

\* C1: every chunk chunk_text has produced has length at most max_chars.
C1_ChunkSizeBound == \A i \in DOMAIN parts : Len(parts[i]) <= max_chars

\* a run that cut a text longer than max_chars and emitted a full-size chunk
C1_Witness ==
    /\ cpc = "done"
    /\ Len(input) > max_chars
    /\ Len(parts) >= 2
    /\ \E i \in DOMAIN parts : Len(parts[i]) = max_chars

\* C2: the non-whitespace characters of the returned chunks, in order, are
\* those of the input: nothing is dropped, duplicated or reordered.
C2_NonSpacePreserved ==
    cpc = "done" => NonSpace(Flatten(parts)) = NonSpace(input)

\* a returned result of several chunks whose cuts trimmed whitespace away
C2_Witness ==
    /\ cpc = "done"
    /\ Len(parts) >= 2
    /\ Len(Flatten(parts)) < Len(input)
    /\ Len(NonSpace(input)) >= 3

\* C3 as claimed: with a newline anywhere in the window (index 0 included)
\* the cut is made at a newline.
C3_CutAtNewlineFromIndex0 ==
    (cpc = "body" /\ NewlineInWindow(text, max_chars, 0)) => text[cut + 1] = NL

\* C3 as amended: with a newline in the window at an index of 1 or more the
\* cut is made at a newline, so a cut that is not at a newline happens only
\* when the window holds no newline past index 0.
C3_CutAtNewlineFromIndex1 ==
    (cpc = "body" /\ NewlineInWindow(text, max_chars, 1)) =>
        (text[cut + 1] = NL /\ cut < max_chars)

\* a cut made at a newline inside the window
C3_Witness ==
    /\ cpc = "body"
    /\ NewlineInWindow(text, max_chars, 1)
    /\ cut >= 1
    /\ text[cut + 1] = NL

\* C4: every iteration of the loop strictly shortens the remaining text (the
\* reason the loop is claimed to end for every max_chars, 0 included).
C4_IterationShortensText == [][cpc = "body" => Len(text') < Len(text)]_vars


(***************************************************************************)
(* Claims about score_product, checked under SpecScore.                    *)
(***************************************************************************)
\* C6: score_product returns a value in the closed range [0, 100].
C6_ScoreInRange == spc = "done" => (0 <= score /\ score <= 100 * Scale)

\* a product whose unclamped score is above 100, scored
C6_Witness ==
    /\ spc = "done"
    /\ p.yield_rate # Absent
    /\ p.yield_rate[1] >= 19 * Scale
    /\ score = 100 * Scale

\* the score the specification states for a product, before the clamp
StatedRawScore(q) ==
    50 * Scale
    + (IF q.yield_rate = Absent THEN 0 ELSE 3 * (q.yield_rate[1] - Scale))
    - (IF q.currency \in {"KZT", "USD", "EUR"} THEN 0 ELSE 5 * Scale)
    - (IF q.min_investment # Absent /\ q.min_investment[1] > 1000000
       THEN 5 * Scale ELSE 0)

C8_NormalizeNeverRaises == npc = "done" => (nraised = None /\ product # <<>>)


(***************************************************************************)
(* Claims about the fetcher and generate_digest, checked under SpecDigest. *)
(***************************************************************************)
\* C5: a fetch never issues more than max_retries + 1 requests, and a fetch
\* whose every request failed has issued exactly max_retries + 1 of them when
\* _make_request returns, and returns None.
C5_RetryTermination ==
    /\ attempts <= max_retries + 1
    /\ (dpc = "scrape_url" /\ failures = attempts) =>
           (attempts = max_retries + 1 /\ response = None)

\* a fetch that failed on every attempt, with retries made, has returned
C5_Witness ==
    /\ dpc = "scrape_url"
    /\ max_retries >= 1
    /\ failures = max_retries + 1
    /\ attempts = failures
    /\ response = None

\* C9: when every URL failed to fetch, generate_digest returns the fixed
\* non-empty no-data text, raises nothing, and makes no summarization call,
\* no aggregation call and no store write.
C9_NoDataWhenAllFetchesFail ==
    (dpc = "done" /\ articles = <<>>) =>
        /\ ret = MsgNoData /\ ret # ""
        /\ raised = None
        /\ nSummarize = 0 /\ nAggregate = 0
        /\ db_session = "none" /\ db_pending = 0 /\ db_rows = 0

\* a run over several URLs that all failed, ended
C9_Witness ==
    /\ dpc = "done"
    /\ Len(urls) >= 2
    /\ ui = Len(urls)
    /\ articles = <<>>
    /\ ret = MsgNoData

\* C10: once the digest text exists, a failure of the store step (the session
\* was not closed after a commit) is swallowed: nothing is raised and the
\* digest text is returned unchanged.
C10_StoreFailureSwallowed ==
    (dpc = "done" /\ digest \notin {None, ""} /\ db_session # "closed") =>
        (raised = None /\ ret = digest)


(***************************************************************************)
(* Claims about generate_full_investment_report, checked under SpecReport. *)
(***************************************************************************)
\* the phases of a workflow run, in their order
PhaseRank(ph) ==
    CASE ph = "START" -> 0
      [] ph = "FETCHING" -> 1
      [] ph = "EXTRACTING" -> 2
      [] ph = "SCORING" -> 3
      [] ph = "COMPOSING" -> 4
      [] ph \in {"DONE", "FAILED"} -> 5

\* C11: a run passes through its phases in the order FETCHING, EXTRACTING,
\* SCORING, COMPOSING, DONE and never returns to an earlier phase, and a run
\* that is over is in DONE or FAILED.
C11_PhasesInOrder ==
    [][/\ PhaseRank(rphase') >= PhaseRank(rphase)
       /\ (rpc' = "done" => rphase' \in {"DONE", "FAILED"})]_vars

\* C12: every run in which at least one local article was fetched returns the
\* report text (the three narrative sections and the disclaimer footer); no
\* failure of a narrative call keeps the report from being returned.
\* (Stated for the runs in which no extraction call raised.)
C12_ReportReturned ==
    (rpc = "done" /\ local_articles # <<>> /\ routcome # Raised("APIError")) =>
        routcome.kind = "returned"


(***************************************************************************)
(* Claims about parse_product_page and extract_investment_data, checked    *)
(* under SpecParse.                                                        *)
(***************************************************************************)
\* the selector tier has records for the page: raw markup, a registered
\* domain, at least one block, no selector error
SelectorYields(art) ==
    /\ art.raw_html = "html"
    /\ domain_from_url(art.url) \in RegisteredDomains
    /\ art.blocks >= 1
    /\ ~art.broken

Unusable(j) ==
    \/ j.kind \in {"invalid", "null", "number", "string"}
    \/ j.kind = "array" /\ \E i \in DOMAIN j.items : j.items[i].t # "dict"

\* C14: whatever the LLM answers, extract_investment_data and
\* parse_product_page raise nothing and return a list of records; a single
\* JSON object gives the one-element list built from that object, and any
\* other unusable answer gives an empty list or the placeholder.
C14_AnswerNeverRaisesAndIsCoerced ==
    (ppc = "done" /\ answer # NoAnswer) =>
        /\ praised = None
        /\ pfun = "parse_product_page" =>
              /\ answer.kind = "object" =>
                     presult = NormalizeAll(<<answer.items[1].v>>)
              /\ Unusable(answer) =>
                     presult \in {<<>>, <<Placeholder(particle)>>}
        /\ pfun = "extract_investment_data" =>
              /\ answer.kind = "object" => extracted = answer.items
              /\ Unusable(answer) => extracted = <<>>
              /\ \A i \in DOMAIN extracted : extracted[i].t = "dict"

\* C15: for an article with non-empty text parse_product_page returns at
\* least one record; when the LLM tier gives no records (an empty JSON array
\* included) the list returned is the placeholder alone, which carries the
\* article's url and an excerpt of its text.
\* (Stated for the runs in which the LLM call itself did not raise.)
C15_AtLeastOneRecord ==
    (pfun = "parse_product_page" /\ ppc = "done" /\ praised = None
        /\ particle.text # <<>>) =>
        /\ Len(presult) >= 1
        /\ (answer = [kind |-> "array", items |-> <<>>]) =>
               (/\ presult = <<Placeholder(particle)>>
                /\ presult[1].url = Str(particle.url)
                /\ presult[1].additional_info = Obj(particle.text))


(***************************************************************************)
(* Claims about the bot, checked under SpecBot.                            *)
(***************************************************************************)
\* the pipeline runs in progress
RunsInProgress == {loop_run, worker_run} \ {"none"}

\* C16: every pipeline run started from the bot executes in a worker context:
\* while a run is in progress the event loop can accept an incoming update,
\* and the handler that started the run is suspended until the worker is done
\* and then resumes with the result.
C16_RunsLeaveLoopFree ==
    /\ (RunsInProgress \cap UpdateKinds # {} /\ incoming # <<>>) =>
           ENABLED BotAcceptUpdate
    /\ \A k \in UpdateKinds :
          (handler.kind = k /\ handler.at \in {"running", "awaiting"}) =>
              (handler.at = "awaiting" /\ (worker_run = k \/ future_done))

\* C17: every pipeline run fetches with a FinancialScraper it built itself, so
\* that no two runs in progress at the same time send their requests through
\* the same session.
C17_RunsBuildTheirScraper ==
    /\ \A k \in RunsInProgress : ScraperOf(k) = "built by the run"
    /\ (loop_run # "none" /\ worker_run # "none") =>
           (ScraperOf(loop_run) # ScraperOf(worker_run)
            \/ ScraperOf(loop_run) = "built by the run")


(***************************************************************************)
(* Claims about the pacing of the fetcher, checked under SpecDigest.       *)
(***************************************************************************)
\* C18: the URLs of a run are fetched one after the other in list order, and
\* every GET request of the run but the first (a retry of the same URL
\* included) is issued at least the configured delay after the one before.
C18_RequestsSpacedByDelay ==
    [][/\ (ui' = ui \/ ui' = ui + 1)
       /\ (attempts' = attempts + 1 /\ slept # Absent) => slept[1] >= delay]_vars


\* C19: in every record parse_product_page returns, normalized record and
\* placeholder alike, currency is a string that is empty or has exactly three
\* characters, all in upper case.
C19_CurrencyEmptyOrThreeUpper ==
    (pfun = "parse_product_page" /\ ppc = "done") =>
        \A i \in DOMAIN presult :
            LET c == presult[i].currency
            IN  /\ c.t = "str"
                /\ Len(c.v) \in {0, CurrencyLen}
                /\ c.v = Upper(c.v)


\* C20: a run of generate_full_investment_report that has scored products and
\* that no LLM error has ended makes the recommendation call, and the products
\* the call is given are the scored records ordered by score descending.
C20_RecommendationGetsRanked ==
    (rpc = "done" /\ routcome # Raised("APIError") /\ structured_products # <<>>) =>
        /\ "generate_investment_recommendations" \in rcalls
        /\ RecommendationProducts = SortByScoreDesc(structured_products)

(***************************************************************************)
(* Further claims about chunk_text, checked under SpecChunk.               *)
(***************************************************************************)
\* the 0-based indexes from..to of the text that hold a newline
NewlinesAt(s, from, to) == {i \in from..Min(to, Len(s) - 1) : s[i + 1] = NL}

\* the greatest element of a non-empty set of numbers
Last(S) == CHOOSE i \in S : \A j \in S : j <= i

\* C21 as claimed, for a remaining text that does not begin with a newline:
\* the cut is made at the last newline at an index of at most max_chars (index
\* max_chars itself included), and at max_chars when there is none.
C21_CutAtLastNewlineUpToMax ==
    (cpc = "body" /\ NewlinesAt(text, 0, 0) = {}) =>
        cut = IF NewlinesAt(text, 0, max_chars) = {}
              THEN max_chars
              ELSE Last(NewlinesAt(text, 0, max_chars))

\* C21 as amended: the cut is made at the last newline among the indexes
\* 1..max_chars-1 (a newline at index max_chars or at index 0 does not count),
\* and at max_chars when there is none; the chunk emitted is the first cut
\* characters trimmed, it does not end with a newline, and chunking goes on
\* with the rest, trimmed.
C21_CutAtLastNewlineBelowMax ==
    [][cpc = "body" =>
         /\ cut = IF NewlinesAt(text, 1, max_chars - 1) = {}
                  THEN max_chars
                  ELSE Last(NewlinesAt(text, 1, max_chars - 1))
         /\ parts' = Append(parts, Strip(SubSeq(text, 1, cut)))
         /\ LET ch == parts'[Len(parts')]
            IN  ch = <<>> \/ ch[Len(ch)] # NL
         /\ text' = Strip(SubSeq(text, cut + 1, Len(text)))
         /\ cpc' = "while"]_vars

\* a cut made at an earlier newline although index max_chars holds a newline,
\* and the chunk of it emitted
C21_Witness ==
    /\ cpc = "while"
    /\ parts # <<>>
    /\ Len(input) > max_chars
    /\ input[max_chars + 1] = NL
    /\ NewlinesAt(input, 1, max_chars - 1) # {}
    /\ cut = Last(NewlinesAt(input, 1, max_chars - 1))
    /\ parts[1] = Strip(SubSeq(input, 1, cut))
    /\ parts[1] # <<>>

(***************************************************************************)
(* Further claims about the fetcher and the store, checked under           *)
(* SpecDigest.                                                             *)
(***************************************************************************)
RECURSIVE SumSeq(_)
SumSeq(ws) == IF ws = <<>> THEN 0 ELSE Head(ws) + SumSeq(Tail(ws))

\* C22: in one fetch the failed attempt number k is followed by a wait of
\* exactly 2^k seconds when a retry is left, the last failed attempt and a
\* successful attempt are followed by none, a successful attempt ends the
\* fetch, and a fetch that failed for good has waited 2^max_retries - 1
\* seconds in all.
C22_BackoffWaits ==
    /\ \A k \in DOMAIN sleeps : sleeps[k] = 2 ^ (k - 1)
    /\ dpc = "request" => (Len(sleeps) = failures /\ attempts = failures)
    /\ (dpc = "scrape_url" /\ response # None) =>
           (attempts = failures + 1 /\ Len(sleeps) = failures)
    /\ (dpc = "scrape_url" /\ response = None) =>
           /\ failures = max_retries + 1
           /\ Len(sleeps) = max_retries
           /\ SumSeq(sleeps) = 2 ^ max_retries - 1

\* a fetch with two retries that failed for good, having waited 1 and then 2
\* seconds
C22_Witness ==
    /\ dpc = "scrape_url"
    /\ response = None
    /\ max_retries = 2
    /\ failures = 3
    /\ sleeps = <<1, 2>>

\* C23: when generate_digest has ended, whether its save succeeded or failed,
\* the session the run opened is closed and no added row is left pending in
\* it (a failed save is rolled back).
C23_FailedSaveRolledBackAndClosed ==
    dpc = "done" => (db_session # "open" /\ db_pending = 0)

(***************************************************************************)
(* Further claims about generate_full_investment_report, checked under     *)
(* SpecReport.                                                             *)
(***************************************************************************)
\* C24: a run of generate_full_investment_report that fetched articles and
\* that no LLM error has ended has called save_investment_report, the one
\* append of a report record, by the time it ends.
C24_ReportRunAppendsItsRecord ==
    (rpc = "done" /\ local_articles # <<>> /\ routcome # Raised("APIError")) =>
        "save_investment_report" \in rcalls

\* C25: a run of generate_full_investment_report that fetched no local
\* article returns (it raises nothing) and has called nothing beyond the local
\* fetch: no LLM call, no further fetch, no store write.
C25_NoArticlesShortCircuits ==
    (rpc = "done" /\ local_articles = <<>>) =>
        /\ routcome.kind = "returned"
        /\ rcalls \subseteq {"scrape_investment_products"}

\* C26: a failure of the LLM service in an extraction call does not end the
\* run of generate_full_investment_report: no run ends by the LLM's exception,
\* and a run that has ended has gone through all its pages.
C26_LlmFailureEndsOnlyThePage ==
    /\ routcome # Raised("APIError")
    /\ rpc = "done" => rai > Min(Len(local_articles), ParseArticleLimit)

(***************************************************************************)
(* Claims about the delivery of a text, checked under SpecSend.            *)
(***************************************************************************)
\* the segments span the text from its start to its end, each beginning where
\* the one before ended
InOrderConcatenationIs(segs, n) ==
    /\ segs = <<>> => n = 0
    /\ segs # <<>> => (segs[1][1] = 0 /\ segs[Len(segs)][2] = n)
    /\ \A k \in 1..(Len(segs) - 1) : segs[k + 1][1] = segs[k][2]

\* C27: when a delivery has ended, every segment sent has at most 3900
\* characters and the segments, in the order sent, make up the whole text;
\* for the handlers and for the daily job.
C27_DeliveredInFull ==
    sndpc = "done" =>
        /\ \A k \in DOMAIN segments : segments[k][2] - segments[k][1] <= SegmentLimit
        /\ InOrderConcatenationIs(segments, text_len)

(***************************************************************************)
(* A claim about the chunks chunk_text returns, checked under SpecChunk.   *)
(***************************************************************************)
\* C28 as claimed: for every input text and max_chars >= 1 every chunk
\* chunk_text returns holds at least one character that is not whitespace.
C28_NoEmptyChunk ==
    (cpc = "done" /\ max_chars >= 1) =>
        \A i \in DOMAIN parts : NonSpace(parts[i]) # <<>>

\* the text is empty or begins with a character that is not whitespace, as the
\* texts extract_text returns do (scraper.py 40)
BeginsWithText(s) == s = <<>> \/ ~IsSpace(s[1])

\* C28 as amended: for an input text that does not begin with whitespace and
\* max_chars >= 1, every chunk produced holds at least one character that is
\* not whitespace.
C28_NoEmptyChunkOfTrimmedText ==
    (max_chars >= 1 /\ BeginsWithText(input)) =>
        \A i \in DOMAIN parts : NonSpace(parts[i]) # <<>>

\* a returned result of several chunks for a text that begins with a letter
\* and holds two whitespace characters in a row
C28_Witness ==
    /\ cpc = "done"
    /\ max_chars >= 1
    /\ input # <<>>
    /\ BeginsWithText(input)
    /\ \E k \in 1..(Len(input) - 1) : IsSpace(input[k]) /\ IsSpace(input[k + 1])
    /\ Len(parts) >= 2

(***************************************************************************)
(* Claims about compare_products, checked under SpecCompare.               *)
(***************************************************************************)
\* the elements of a sequence
Range(f) == {f[i] : i \in DOMAIN f}

\* the list of local_sources that holds the sources of a product type of the
\* bot (the bot's "brokers" are the "broker_platforms" of the analyzer)
RegisteredFor(t) ==
    local_sources[IF t = "brokers" THEN "broker_platforms" ELSE t]

\* C29: when the fetch of compare_products has ended, the URLs requested are
\* exactly the sources registered for the product type, and none of them is a
\* source of another product type.
C29_ScrapesOwnSourcesOnly ==
    cmppc \in {"no data", "extract"} =>
        /\ Range(scraped) = Range(RegisteredFor(product_type))
        /\ \A t \in BotProductTypes \ {product_type} :
               Range(scraped) \cap Range(RegisteredFor(t)) = {}

(***************************************************************************)
(* A claim about _normalize_parsed on selector records, checked under      *)
(* SpecNorm.                                                               *)
(***************************************************************************)
\* two values of a record field are the same value
SameValue(a, b) == a.t = b.t /\ a.v = b.v

\* C30: the product _normalize_parsed returns for a record of
\* try_structured_parse carries the record's title as name, its rate parsed
\* as yield_rate, its min_amount parsed as min_investment and its source as
\* url.
C30_SelectorFieldsKept ==
    (npc = "done" /\ nraised = None /\ raw.parser.t # "missing") =>
        /\ SameValue(product.name, raw.title)
        /\ SameValue(product.yield_rate, parse_percent(raw.rate))
        /\ SameValue(product.min_investment, parse_amount(raw.min_amount))
        /\ SameValue(product.url, raw.source)

=============================================================================
